---- MODULE Spec2Model ----
(***************************************************************************)
(* Learning-management-system API: the request handlers of routes.py and   *)
(* the token / password helpers of auth.py, over the document store of     *)
(* database.py.                                                            *)
(*                                                                         *)
(* Every handler is a coroutine that is suspended at each document-store   *)
(* call (await).  A step of the model is one store call of one request     *)
(* together with the local computation that follows it up to the next      *)
(* store call or up to the response; the arrival of a request is merged    *)
(* with its first store call (nothing before it reads or writes shared     *)
(* state).  Requests of different workers interleave at these steps.       *)
(***************************************************************************)
EXTENDS Integers, Sequences, FiniteSets, TLC

\* ------------------------------------------------------------------ bounds
Workers == 2          \* requests that may be in flight at the same time
MaxUsers == 2         \* cap on the users collection
MaxCourses == 2       \* cap on the courses collection
MaxLessons == 1       \* cap on the lessons collection
MaxQuizzes == 1       \* cap on the quizzes collection
MaxQuestions == 2     \* cap on the questions collection
MaxEnrollments == 3   \* cap on the enrollments collection
MaxCompletions == 3   \* cap on the lesson_completions collection
MaxAttempts == 2      \* cap on the quiz_attempts collection
MaxTime == 2          \* the clock (minutes since process start) stops here
MaxRestarts == 1      \* process restarts explored
MaxDocuments == 4     \* documents a listed collection holds at most
MaxPage == 3          \* largest page number a listing request asks for

Procs == 1..Workers

\* ------------------------------------------------------------ input domains
Usernames == {"alice", "bob"}
Passwords == {"pw1", "pw2"}
ExpireMinutesChoices == {0, 1, 30}

\* ------------------------------------------------------------------- state
VARIABLES
    users,                  \* database.users, in insertion order
    courses,                \* database.courses
    enrollments,            \* database.enrollments
    lessons,                \* database.lessons
    quizzes,                \* database.quizzes
    questions,              \* database.questions
    lesson_completions,     \* database.lesson_completions
    quiz_attempts,          \* database.quiz_attempts
    SECRET_KEY,             \* auth.SECRET_KEY of the running process
    ACCESS_TOKEN_EXPIRE_MINUTES, \* auth.ACCESS_TOKEN_EXPIRE_MINUTES (environment)
    now,                    \* datetime.utcnow(), in minutes
    restarts,               \* process starts so far
    pc,                     \* per worker: the store call its request is suspended at
    loc,                    \* per worker: the locals of the suspended handler
    response                \* the response the last handler step sent (NoResponse
                            \* when that step sent none), with its request

store == <<users, courses, enrollments, lessons, quizzes, questions,
           lesson_completions, quiz_attempts>>
vars == <<users, courses, enrollments, lessons, quizzes, questions,
          lesson_completions, quiz_attempts, SECRET_KEY,
          ACCESS_TOKEN_EXPIRE_MINUTES, now, restarts, pc, loc, response>>

\* ----------------------------------------------------------- identifiers
\* An ObjectId is a positive integer; insert_one gives a new document the
\* next identifier of its collection.  None is 0.
None == 0

inserted_id(collection) == Len(collection) + 1

\* str(ObjectId): the hexadecimal text of an identifier.
str(oid) == <<"hex", oid>>

\* A path parameter that is not the text of any ObjectId.
Malformed == <<"not-hex", 0>>

\* bson.ObjectId.is_valid(text)
is_valid(text) == text[1] = "hex"

\* bson.ObjectId(text), for valid text
ObjectId(text) == text[2]

\* A filter is a record of field values ({} is <<>>); a document matches
\* when it has each of the filter's fields with the filter's value.
matches(document, filter) ==
    \A field \in DOMAIN filter : document[field] = filter[field]

\* collection.find(filter): the matching documents in natural order.
find(collection, filter) ==
    SelectSeq(collection, LAMBDA document : matches(document, filter))

\* collection.find_one(filter): the first matching document in natural
\* order, or <<>> when there is none.
find_one(collection, filter) ==
    LET matching == find(collection, filter)
    IN  IF matching = <<>> THEN <<>> ELSE <<Head(matching)>>

\* collection.count_documents(filter)
count_documents(collection, filter) == Len(find(collection, filter))

\* ----------------------------------------------------------- credentials
\* passlib bcrypt: a salted digest.  The digest is a function of salt and
\* password; verification recomputes it with the stored salt.
Salts == {"s1"}

bcrypt(salt, password) == <<salt, password>>

get_password_hash(password, salt) ==
    [salt |-> salt, digest |-> bcrypt(salt, password)]

verify_password(plain_password, hashed_password) ==
    bcrypt(hashed_password.salt, plain_password) = hashed_password.digest

\* timedelta(minutes=15), the fallback of create_access_token
FallbackExpireMinutes == 15

\* A JWT is its payload (sub is <<>> when the claim is absent, <<name>>
\* otherwise; exp in minutes) and the key that signed it.  expires_delta
\* is <<>> for None and <<minutes>> for a timedelta; a timedelta of zero
\* is falsy in Python, like None.
create_access_token(data, expires_delta) ==
    LET expire == IF expires_delta # <<>> /\ expires_delta[1] # 0
                  THEN now + expires_delta[1]
                  ELSE now + FallbackExpireMinutes
    IN  [sub |-> data, exp |-> expire, key |-> SECRET_KEY]

\* jose.jwt.decode raises JWTError when the signature does not verify
\* (the token was signed with another key) or when exp lies before the
\* current time.
\* Variant: the exp claim is not looked at.
JWTError_ignoring_exp(token) == token.key # SECRET_KEY

JWTError(token) == token.key # SECRET_KEY \/ token.exp < now

get_user_by_username(username) ==
    LET user_data == find_one(users, [username |-> username])
    IN  IF user_data # <<>>
        THEN <<[id |-> str(user_data[1]._id),
                username |-> user_data[1].username,
                hashed_password |-> user_data[1].hashed_password,
                is_admin |-> user_data[1].is_admin]>>
        ELSE <<>>

authenticate_user(username, password) ==
    LET user == get_user_by_username(username)
    IN  IF user = <<>> THEN <<>>
        ELSE IF ~verify_password(password, user[1].hashed_password) THEN <<>>
        ELSE user

HTTPException(status_code, detail) ==
    [ok |-> FALSE, status_code |-> status_code, detail |-> detail]

credentials_exception == HTTPException(401, "Could not validate credentials")

Authenticated(user) == [ok |-> TRUE, user |-> user]

get_current_user(credentials) ==
    IF JWTError(credentials) \/ credentials.sub = <<>>
    THEN credentials_exception
    ELSE LET user == get_user_by_username(credentials.sub[1])
         IN  IF user = <<>> THEN credentials_exception
             ELSE Authenticated(user[1])

\* Variant: the is_admin test of line 86 is left out.
get_current_admin_user_unchecked(credentials) == get_current_user(credentials)

get_current_admin_user(credentials) ==
    LET current_user == get_current_user(credentials)
    IN  IF ~current_user.ok THEN current_user
        ELSE IF ~current_user.user.is_admin
             THEN HTTPException(403, "Admin privileges required")
             ELSE current_user

\* ------------------------------------------------------ request plumbing
NoLocals == [op |-> "none"]
NoResponse == [op |-> "none", request |-> <<>>,
               status_code |-> 0, detail |-> "", body |-> <<>>]

\* A request that arrives is served by the first free worker (the workers
\* are interchangeable coroutines of one event loop).
Free(p) == pc[p] = "idle" /\ \A q \in Procs : q < p => pc[q] # "idle"

\* The handler of worker p is suspended at store call `label`.
Await(p, label, locals) ==
    /\ pc' = [pc EXCEPT ![p] = label]
    /\ loc' = [loc EXCEPT ![p] = locals]
    /\ response' = NoResponse

\* The handler of worker p raises HTTPException(status_code, detail).
Raise(p, op, request, status_code, detail) ==
    /\ pc' = [pc EXCEPT ![p] = "idle"]
    /\ loc' = [loc EXCEPT ![p] = NoLocals]
    /\ response' = [op |-> op, request |-> request,
                    status_code |-> status_code, detail |-> detail, body |-> <<>>]

\* The handler of worker p returns `body` (200).
Return(p, op, request, body) ==
    /\ pc' = [pc EXCEPT ![p] = "idle"]
    /\ loc' = [loc EXCEPT ![p] = NoLocals]
    /\ response' = [op |-> op, request |-> request,
                    status_code |-> 200, detail |-> "", body |-> <<body>>]

UNCHANGED_process_config ==
    UNCHANGED <<SECRET_KEY, ACCESS_TOKEN_EXPIRE_MINUTES, now, restarts>>

\* ------------------------------------------------------------ POST /signup
\* UserCreate.admin: "true", "false" or "omitted" (the default, False).
AdminInputs == {"true", "false", "omitted"}

UserCreate_admin(flag) == flag = "true"

\* routes.py 83-87: find_one by username, then hash the password.
signup(p, username, password, admin, salt) ==
    /\ Free(p)
    /\ Len(users) < MaxUsers
    /\ LET existing_user == find_one(users, [username |-> username])
           request == [username |-> username, admin |-> admin]
       IN  IF existing_user # <<>>
           THEN Raise(p, "signup", request, 400, "Username already registered")
           ELSE Await(p, "signup_count_documents",
                      [op |-> "signup", request |-> request,
                       hashed_password |-> get_password_hash(password, salt)])
    /\ UNCHANGED store
    /\ UNCHANGED_process_config

\* Variant: the admin flag is taken from the request alone.
signup_is_admin_as_requested(user_count, admin) == UserCreate_admin(admin)

\* Variant: the first-user test is off by one.
signup_is_admin_second_user(user_count, admin) ==
    user_count = 1 \/ UserCreate_admin(admin)

\* routes.py 91-94: the first user is always an admin.
signup_is_admin(user_count, admin) ==
    LET is_first_user == user_count = 0
    IN  is_first_user \/ UserCreate_admin(admin)

\* routes.py 90-100: count the users, decide the admin flag.
signup_count_documents(p) ==
    /\ pc[p] = "signup_count_documents"
    /\ LET user_count == count_documents(users, <<>>)
           is_admin == signup_is_admin(user_count, loc[p].request.admin)
       IN  Await(p, "signup_insert_one",
                 [op |-> "signup", request |-> loc[p].request,
                  user_data |-> [username |-> loc[p].request.username,
                                 hashed_password |-> loc[p].hashed_password,
                                 is_admin |-> is_admin]])
    /\ UNCHANGED store
    /\ UNCHANGED_process_config

\* routes.py 101-103: insert the user, answer with UserOut.
signup_insert_one(p) ==
    /\ pc[p] = "signup_insert_one"
    /\ Len(users) < MaxUsers
    /\ LET user_data == loc[p].user_data
           _id == inserted_id(users)
       IN  /\ users' = Append(users, [_id |-> _id,
                                      username |-> user_data.username,
                                      hashed_password |-> user_data.hashed_password,
                                      is_admin |-> user_data.is_admin])
           /\ Return(p, "signup", loc[p].request,
                     [id |-> str(_id), username |-> user_data.username,
                      is_admin |-> user_data.is_admin])
    /\ UNCHANGED <<courses, enrollments, lessons, quizzes, questions,
                   lesson_completions, quiz_attempts>>
    /\ UNCHANGED_process_config

\* ------------------------------------------------------------- POST /login
login(p, username, password) ==
    /\ Free(p)
    /\ LET user == authenticate_user(username, password)
           request == [username |-> username, password |-> password]
       IN  IF user = <<>>
           THEN Raise(p, "login", request, 400, "Incorrect username or password")
           ELSE Return(p, "login", request,
                       [access_token |->
                            create_access_token(<<user[1].username>>,
                                                <<ACCESS_TOKEN_EXPIRE_MINUTES>>),
                        token_type |-> "bearer"])
    /\ UNCHANGED store
    /\ UNCHANGED_process_config

\* ------------------------------------------------------ POST /create_course
\* Depends(get_current_admin_user), then the handler waits at insert_one.
create_course(p, credentials) ==
    /\ Free(p)
    /\ Len(courses) < MaxCourses
    /\ LET current_user == get_current_admin_user(credentials)
       IN  IF ~current_user.ok
           THEN Raise(p, "create_course", [credentials |-> credentials],
                      current_user.status_code, current_user.detail)
           ELSE Await(p, "create_course_insert_one",
                      [op |-> "create_course", current_user |-> current_user.user])
    /\ UNCHANGED store
    /\ UNCHANGED_process_config

create_course_insert_one(p) ==
    /\ pc[p] = "create_course_insert_one"
    /\ Len(courses) < MaxCourses
    /\ LET _id == inserted_id(courses)
           created_by == ObjectId(loc[p].current_user.id)
       IN  /\ courses' = Append(courses, [_id |-> _id, created_by |-> created_by])
           /\ Return(p, "create_course", <<>>,
                     [id |-> str(_id), created_by |-> str(created_by)])
    /\ UNCHANGED <<users, enrollments, lessons, quizzes, questions,
                   lesson_completions, quiz_attempts>>
    /\ UNCHANGED_process_config

\* ------------------------------------------------ course-creator check
\* Variant: the created_by comparison of line 37 is left out.
get_course_creator_user_any_admin(course, current_user) ==
    IF course = <<>>
    THEN HTTPException(404, "Course not found")
    ELSE IF course[1].created_by = None
    THEN HTTPException(403, "This course was created before ownership tracking was implemented. Only admins can modify it.")
    ELSE Authenticated(current_user)

\* routes.py 28-40, given the course the store returned for course_id
\* (<<>> when find_one found none).  A legacy course has no created_by.
get_course_creator_user(course, current_user) ==
    IF course = <<>>
    THEN HTTPException(404, "Course not found")
    ELSE IF course[1].created_by = None
    THEN HTTPException(403, "This course was created before ownership tracking was implemented. Only admins can modify it.")
    ELSE IF course[1].created_by # ObjectId(current_user.id)
    THEN HTTPException(403, "Only the course creator can modify this course")
    ELSE Authenticated(current_user)

\* bson raises InvalidId for a malformed identifier; outside a try block the
\* framework answers 500.
InvalidId(p, op, request) == Raise(p, op, request, 500, "Internal Server Error")

\* A handler whose dependency is get_current_user or get_current_admin_user:
\* the dependency's store call, then the handler up to its first store call.
\* A request the dependency refuses is answered with its bearer token noted.
Depends(p, op, request, credentials, current_user, first_id, label) ==
    IF ~current_user.ok
    THEN Raise(p, op, [credentials |-> credentials],
               current_user.status_code, current_user.detail)
    ELSE IF ~is_valid(first_id)
    THEN InvalidId(p, op, request)
    ELSE Await(p, label, [op |-> op, request |-> request,
                          current_user |-> current_user.user])

\* ------------------------------------- POST /courses/{course_id}/lessons
create_lesson(p, credentials, course_id) ==
    /\ Free(p)
    /\ Len(lessons) < MaxLessons
    /\ Depends(p, "create_lesson", [course_id |-> course_id],
               credentials, get_current_admin_user(credentials), course_id,
               "create_lesson_find_course")
    /\ UNCHANGED store
    /\ UNCHANGED_process_config

\* routes.py 202 (29-40): the course is read and the creator compared.
create_lesson_find_course(p) ==
    /\ pc[p] = "create_lesson_find_course"
    /\ LET course_id == loc[p].request.course_id
           course == find_one(courses, [_id |-> ObjectId(course_id)])
           creator == get_course_creator_user(course, loc[p].current_user)
       IN  IF ~creator.ok
           THEN Raise(p, "create_lesson", loc[p].request,
                      creator.status_code, creator.detail)
           ELSE Await(p, "create_lesson_insert_one", loc[p])
    /\ UNCHANGED store
    /\ UNCHANGED_process_config

\* routes.py 204-209
create_lesson_insert_one(p) ==
    /\ pc[p] = "create_lesson_insert_one"
    /\ Len(lessons) < MaxLessons
    /\ LET _id == inserted_id(lessons)
           course_id == ObjectId(loc[p].request.course_id)
       IN  /\ lessons' = Append(lessons, [_id |-> _id, course_id |-> course_id])
           /\ Return(p, "create_lesson", loc[p].request,
                     [id |-> str(_id), course_id |-> str(course_id)])
    /\ UNCHANGED <<users, courses, enrollments, quizzes, questions,
                   lesson_completions, quiz_attempts>>
    /\ UNCHANGED_process_config

\* ------------------------------------- POST /courses/{course_id}/quizzes
create_quiz(p, credentials, course_id) ==
    /\ Free(p)
    /\ Len(quizzes) < MaxQuizzes
    /\ Depends(p, "create_quiz", [course_id |-> course_id],
               credentials, get_current_admin_user(credentials), course_id,
               "create_quiz_find_course")
    /\ UNCHANGED store
    /\ UNCHANGED_process_config

create_quiz_find_course(p) ==
    /\ pc[p] = "create_quiz_find_course"
    /\ LET course_id == loc[p].request.course_id
           course == find_one(courses, [_id |-> ObjectId(course_id)])
           creator == get_course_creator_user(course, loc[p].current_user)
       IN  IF ~creator.ok
           THEN Raise(p, "create_quiz", loc[p].request,
                      creator.status_code, creator.detail)
           ELSE Await(p, "create_quiz_insert_one", loc[p])
    /\ UNCHANGED store
    /\ UNCHANGED_process_config

create_quiz_insert_one(p) ==
    /\ pc[p] = "create_quiz_insert_one"
    /\ Len(quizzes) < MaxQuizzes
    /\ LET _id == inserted_id(quizzes)
           course_id == ObjectId(loc[p].request.course_id)
       IN  /\ quizzes' = Append(quizzes, [_id |-> _id, course_id |-> course_id])
           /\ Return(p, "create_quiz", loc[p].request,
                     [id |-> str(_id), course_id |-> str(course_id)])
    /\ UNCHANGED <<users, courses, enrollments, lessons, questions,
                   lesson_completions, quiz_attempts>>
    /\ UNCHANGED_process_config

\* ---------------------------------------- POST /courses/{course_id}/enroll
enroll_course(p, credentials, course_id) ==
    /\ Free(p)
    /\ Len(enrollments) < MaxEnrollments
    /\ Depends(p, "enroll_course", [course_id |-> course_id],
               credentials, get_current_user(credentials), course_id,
               "enroll_course_find_course")
    /\ UNCHANGED store
    /\ UNCHANGED_process_config

\* routes.py 176-178
enroll_course_find_course(p) ==
    /\ pc[p] = "enroll_course_find_course"
    /\ LET course_id == loc[p].request.course_id
           course == find_one(courses, [_id |-> ObjectId(course_id)])
       IN  IF course = <<>>
           THEN Raise(p, "enroll_course", loc[p].request, 404, "Course not found")
           ELSE Await(p, "enroll_course_find_enrollment", loc[p])
    /\ UNCHANGED store
    /\ UNCHANGED_process_config

\* Variant: the existence check of lines 181-186 is left out.
enroll_course_without_check(p) ==
    /\ pc[p] = "enroll_course_find_enrollment"
    /\ Await(p, "enroll_course_insert_one", loc[p])
    /\ UNCHANGED store
    /\ UNCHANGED_process_config

\* routes.py 180-186
enroll_course_find_enrollment(p) ==
    /\ pc[p] = "enroll_course_find_enrollment"
    /\ LET user_id == ObjectId(loc[p].current_user.id)
           course_id == ObjectId(loc[p].request.course_id)
           existing_enrollment ==
               find_one(enrollments,
                        [user_id |-> user_id, course_id |-> course_id])
       IN  IF existing_enrollment # <<>>
           THEN Raise(p, "enroll_course", loc[p].request,
                      400, "Already enrolled in this course")
           ELSE Await(p, "enroll_course_insert_one", loc[p])
    /\ UNCHANGED store
    /\ UNCHANGED_process_config

\* routes.py 188-196
enroll_course_insert_one(p) ==
    /\ pc[p] = "enroll_course_insert_one"
    /\ Len(enrollments) < MaxEnrollments
    /\ LET _id == inserted_id(enrollments)
           user_id == ObjectId(loc[p].current_user.id)
           course_id == ObjectId(loc[p].request.course_id)
       IN  /\ enrollments' = Append(enrollments,
                                    [_id |-> _id, user_id |-> user_id,
                                     course_id |-> course_id])
           /\ Return(p, "enroll_course", loc[p].request,
                     [id |-> str(_id), user_id |-> str(user_id),
                      course_id |-> str(course_id)])
    /\ UNCHANGED <<users, courses, lessons, quizzes, questions,
                   lesson_completions, quiz_attempts>>
    /\ UNCHANGED_process_config

\* --------------------------------------- POST /lessons/{lesson_id}/complete
complete_lesson(p, credentials, lesson_id) ==
    /\ Free(p)
    /\ Len(lesson_completions) < MaxCompletions
    /\ Depends(p, "complete_lesson", [lesson_id |-> lesson_id],
               credentials, get_current_user(credentials), lesson_id,
               "complete_lesson_find_lesson")
    /\ UNCHANGED store
    /\ UNCHANGED_process_config

\* routes.py 339-341
complete_lesson_find_lesson(p) ==
    /\ pc[p] = "complete_lesson_find_lesson"
    /\ LET lesson_id == loc[p].request.lesson_id
           lesson == find_one(lessons, [_id |-> ObjectId(lesson_id)])
       IN  IF lesson = <<>>
           THEN Raise(p, "complete_lesson", loc[p].request, 404, "Lesson not found")
           ELSE Await(p, "complete_lesson_find_completion", loc[p])
    /\ UNCHANGED store
    /\ UNCHANGED_process_config

\* routes.py 343-355: the completion is looked up; the record to insert gets
\* its timestamp before the insert is awaited.
complete_lesson_find_completion(p) ==
    /\ pc[p] = "complete_lesson_find_completion"
    /\ LET user_id == ObjectId(loc[p].current_user.id)
           lesson_id == ObjectId(loc[p].request.lesson_id)
           existing_completion ==
               find_one(lesson_completions,
                        [user_id |-> user_id, lesson_id |-> lesson_id])
       IN  IF existing_completion # <<>>
           THEN Raise(p, "complete_lesson", loc[p].request,
                      400, "Lesson already marked as completed")
           ELSE Await(p, "complete_lesson_insert_one",
                      [op |-> "complete_lesson", request |-> loc[p].request,
                       current_user |-> loc[p].current_user,
                       timestamp |-> now])
    /\ UNCHANGED store
    /\ UNCHANGED_process_config

\* routes.py 356-360
complete_lesson_insert_one(p) ==
    /\ pc[p] = "complete_lesson_insert_one"
    /\ Len(lesson_completions) < MaxCompletions
    /\ LET _id == inserted_id(lesson_completions)
           user_id == ObjectId(loc[p].current_user.id)
           lesson_id == ObjectId(loc[p].request.lesson_id)
       IN  /\ lesson_completions' =
                  Append(lesson_completions,
                         [_id |-> _id, user_id |-> user_id,
                          lesson_id |-> lesson_id,
                          timestamp |-> loc[p].timestamp])
           /\ Return(p, "complete_lesson", loc[p].request,
                     [id |-> str(_id), user_id |-> str(user_id),
                      lesson_id |-> str(lesson_id),
                      timestamp |-> loc[p].timestamp])
    /\ UNCHANGED <<users, courses, enrollments, lessons, quizzes, questions,
                   quiz_attempts>>
    /\ UNCHANGED_process_config

\* ------------------------------------- POST /quizzes/{quiz_id}/questions
create_question(p, credentials, quiz_id, correct_answer) ==
    /\ Free(p)
    /\ Len(questions) < MaxQuestions
    /\ Depends(p, "create_question",
               [quiz_id |-> quiz_id, correct_answer |-> correct_answer],
               credentials, get_current_admin_user(credentials), quiz_id,
               "create_question_find_quiz")
    /\ UNCHANGED store
    /\ UNCHANGED_process_config

\* routes.py 293-295
create_question_find_quiz(p) ==
    /\ pc[p] = "create_question_find_quiz"
    /\ LET quiz_id == loc[p].request.quiz_id
           quiz == find_one(quizzes, [_id |-> ObjectId(quiz_id)])
       IN  IF quiz = <<>>
           THEN Raise(p, "create_question", loc[p].request, 404, "Quiz not found")
           ELSE Await(p, "create_question_find_course",
                      [op |-> "create_question", request |-> loc[p].request,
                       current_user |-> loc[p].current_user,
                       course_id |-> str(quiz[1].course_id)])
    /\ UNCHANGED store
    /\ UNCHANGED_process_config

\* routes.py 298 (29-40)
create_question_find_course(p) ==
    /\ pc[p] = "create_question_find_course"
    /\ LET course == find_one(courses, [_id |-> ObjectId(loc[p].course_id)])
           creator == get_course_creator_user(course, loc[p].current_user)
       IN  IF ~creator.ok
           THEN Raise(p, "create_question", loc[p].request,
                      creator.status_code, creator.detail)
           ELSE Await(p, "create_question_insert_one",
                      [op |-> "create_question", request |-> loc[p].request,
                       current_user |-> loc[p].current_user])
    /\ UNCHANGED store
    /\ UNCHANGED_process_config

\* routes.py 300-305
create_question_insert_one(p) ==
    /\ pc[p] = "create_question_insert_one"
    /\ Len(questions) < MaxQuestions
    /\ LET _id == inserted_id(questions)
           quiz_id == ObjectId(loc[p].request.quiz_id)
           correct_answer == loc[p].request.correct_answer
       IN  /\ questions' = Append(questions,
                                  [_id |-> _id, quiz_id |-> quiz_id,
                                   correct_answer |-> correct_answer])
           /\ Return(p, "create_question", loc[p].request,
                     [id |-> str(_id), quiz_id |-> str(quiz_id),
                      correct_answer |-> correct_answer])
    /\ UNCHANGED <<users, courses, enrollments, lessons, quizzes,
                   lesson_completions, quiz_attempts>>
    /\ UNCHANGED_process_config

\* ----------------------------------------- POST /quizzes/{quiz_id}/attempt
\* routes.py 377-380: one point for every position whose answer is the
\* question's correct_answer.
\* Variant: a question counts when its correct_answer was submitted at any
\* position.
grade_any_position(quiz_questions, answers, i) ==
    Cardinality({j \in i..Len(quiz_questions) :
                    \E k \in 1..Len(answers) :
                        answers[k] = quiz_questions[j].correct_answer})

RECURSIVE grade(_, _, _)
grade(quiz_questions, answers, i) ==
    IF i > Len(quiz_questions) THEN 0
    ELSE (IF i <= Len(answers) /\ answers[i] = quiz_questions[i].correct_answer
          THEN 1 ELSE 0)
         + grade(quiz_questions, answers, i + 1)

attempt_quiz(p, credentials, quiz_id, answers) ==
    /\ Free(p)
    /\ Len(quiz_attempts) < MaxAttempts
    /\ Depends(p, "attempt_quiz", [quiz_id |-> quiz_id, answers |-> answers],
               credentials, get_current_user(credentials), quiz_id,
               "attempt_quiz_find_quiz")
    /\ UNCHANGED store
    /\ UNCHANGED_process_config

\* routes.py 364-366
attempt_quiz_find_quiz(p) ==
    /\ pc[p] = "attempt_quiz_find_quiz"
    /\ LET quiz_id == loc[p].request.quiz_id
           quiz == find_one(quizzes, [_id |-> ObjectId(quiz_id)])
       IN  IF quiz = <<>>
           THEN Raise(p, "attempt_quiz", loc[p].request, 404, "Quiz not found")
           ELSE Await(p, "attempt_quiz_find_questions", loc[p])
    /\ UNCHANGED store
    /\ UNCHANGED_process_config

\* Variant: the length comparison of lines 374-375 is left out.
attempt_quiz_find_questions_unchecked(p) ==
    /\ pc[p] = "attempt_quiz_find_questions"
    /\ LET quiz_id == ObjectId(loc[p].request.quiz_id)
           answers == loc[p].request.answers
           quiz_questions == find(questions, [quiz_id |-> quiz_id])
       IN  Await(p, "attempt_quiz_insert_one",
                 [op |-> "attempt_quiz", request |-> loc[p].request,
                  current_user |-> loc[p].current_user,
                  score |-> grade(quiz_questions, answers, 1),
                  timestamp |-> now])
    /\ UNCHANGED store
    /\ UNCHANGED_process_config

\* routes.py 368-388: the questions are read, the answers counted and
\* graded, and the record to insert gets its timestamp.
attempt_quiz_find_questions(p) ==
    /\ pc[p] = "attempt_quiz_find_questions"
    /\ LET quiz_id == ObjectId(loc[p].request.quiz_id)
           answers == loc[p].request.answers
           quiz_questions == find(questions, [quiz_id |-> quiz_id])
       IN  IF Len(answers) # Len(quiz_questions)
           THEN Raise(p, "attempt_quiz", loc[p].request, 400,
                      "Number of answers does not match number of questions")
           ELSE Await(p, "attempt_quiz_insert_one",
                      [op |-> "attempt_quiz", request |-> loc[p].request,
                       current_user |-> loc[p].current_user,
                       score |-> grade(quiz_questions, answers, 1),
                       timestamp |-> now])
    /\ UNCHANGED store
    /\ UNCHANGED_process_config

\* Variant: an attempt replaces the user's earlier attempt on the quiz.
attempt_quiz_upsert(p) ==
    /\ pc[p] = "attempt_quiz_insert_one"
    /\ LET user_id == ObjectId(loc[p].current_user.id)
           quiz_id == ObjectId(loc[p].request.quiz_id)
           kept == SelectSeq(quiz_attempts,
                             LAMBDA a : ~(a.user_id = user_id /\ a.quiz_id = quiz_id))
           _id == inserted_id(kept)
       IN  /\ quiz_attempts' =
                  Append(kept, [_id |-> _id, user_id |-> user_id, quiz_id |-> quiz_id,
                                answers |-> loc[p].request.answers,
                                score |-> loc[p].score,
                                timestamp |-> loc[p].timestamp])
           /\ Return(p, "attempt_quiz", loc[p].request,
                     [id |-> str(_id), user_id |-> str(user_id),
                      quiz_id |-> str(quiz_id),
                      answers |-> loc[p].request.answers,
                      score |-> loc[p].score, timestamp |-> loc[p].timestamp])
    /\ UNCHANGED <<users, courses, enrollments, lessons, quizzes, questions,
                   lesson_completions>>
    /\ UNCHANGED_process_config

\* routes.py 389-393
attempt_quiz_insert_one(p) ==
    /\ pc[p] = "attempt_quiz_insert_one"
    /\ Len(quiz_attempts) < MaxAttempts
    /\ LET _id == inserted_id(quiz_attempts)
           user_id == ObjectId(loc[p].current_user.id)
           quiz_id == ObjectId(loc[p].request.quiz_id)
           attempt_data == [user_id |-> user_id, quiz_id |-> quiz_id,
                            answers |-> loc[p].request.answers,
                            score |-> loc[p].score,
                            timestamp |-> loc[p].timestamp]
       IN  /\ quiz_attempts' =
                  Append(quiz_attempts,
                         [_id |-> _id, user_id |-> user_id, quiz_id |-> quiz_id,
                          answers |-> attempt_data.answers,
                          score |-> attempt_data.score,
                          timestamp |-> attempt_data.timestamp])
           /\ Return(p, "attempt_quiz", loc[p].request,
                     [id |-> str(_id), user_id |-> str(user_id),
                      quiz_id |-> str(quiz_id),
                      answers |-> attempt_data.answers,
                      score |-> attempt_data.score,
                      timestamp |-> attempt_data.timestamp])
    /\ UNCHANGED <<users, courses, enrollments, lessons, quizzes, questions,
                   lesson_completions>>
    /\ UNCHANGED_process_config

\* ----------------------------------------------- GET /courses/{course_id}
\* An exception as the except clauses of routes.py look at it: what it is
\* and whether its text contains "invalid ObjectId".  The text of bson's
\* InvalidId is "'...' is not a valid ObjectId, ..."; the text of an
\* HTTPException is "<status_code>: <detail>".
bson_InvalidId == [exception |-> "InvalidId", says_invalid_ObjectId |-> FALSE]

raised(exception) == [exception |-> exception, says_invalid_ObjectId |-> FALSE]

\* routes.py 169-172: except Exception, around the whole handler body.
except_Exception(p, op, request, e, id, detail) ==
    IF e.says_invalid_ObjectId \/ ~is_valid(id)
    THEN Raise(p, op, request, 400, detail)
    ELSE Raise(p, op, request, 500, "Internal server error")

\* CourseOut of a stored course; a course without created_by has none.
CourseOut(course) ==
    [id |-> str(course._id),
     created_by |-> IF course.created_by = None THEN None
                    ELSE str(course.created_by)]

LessonOut(lesson) ==
    [id |-> str(lesson._id), course_id |-> str(lesson.course_id)]

\* routes.py 156-172: no dependency; one store call inside try.
get_course(p, course_id) ==
    /\ Free(p)
    /\ LET request == [course_id |-> course_id]
           detail == "Invalid course ID format"
       IN  IF ~is_valid(course_id)
           THEN except_Exception(p, "get_course", request, bson_InvalidId,
                                 course_id, detail)
           ELSE LET course == find_one(courses, [_id |-> ObjectId(course_id)])
                IN  IF course = <<>>
                    THEN \* the HTTPException(404) of line 161 is raised inside
                         \* the try and caught by line 169
                         except_Exception(p, "get_course", request,
                                          raised(HTTPException(404, "Course not found")),
                                          course_id, detail)
                    ELSE Return(p, "get_course", request, CourseOut(course[1]))
    /\ UNCHANGED store
    /\ UNCHANGED_process_config

\* ----------------------------------------------- GET /lessons/{lesson_id}
\* routes.py 240-247: no dependency, no try.
get_lesson(p, lesson_id) ==
    /\ Free(p)
    /\ LET request == [lesson_id |-> lesson_id]
       IN  IF ~is_valid(lesson_id)
           THEN InvalidId(p, "get_lesson", request)
           ELSE LET lesson == find_one(lessons, [_id |-> ObjectId(lesson_id)])
                IN  IF lesson = <<>>
                    THEN Raise(p, "get_lesson", request, 404, "Lesson not found")
                    ELSE Return(p, "get_lesson", request, LessonOut(lesson[1]))
    /\ UNCHANGED store
    /\ UNCHANGED_process_config

\* ------------------------------------------------------ paginate_collection
\* The collection a handler passes to paginate_collection.
collection_named(name) ==
    CASE name = "courses" -> courses
      [] name = "lessons" -> lessons

\* Variant: the first page skips a page.
skip_of_page_number(page, size) == page * size

\* routes.py 52
skip_of(page, size) == (page - 1) * size

\* Variant: floor division, one added.
pages_floor_plus_one(total, size) == (total \div size) + 1

\* routes.py 65: ceiling division
pages_of(total, size) == (total + size - 1) \div size

\* cursor.skip(skip).limit(size), over the documents find returns
skip_limit(documents, skip, limit) ==
    [i \in 1..(IF Len(documents) - skip < limit
               THEN (IF Len(documents) - skip < 0 THEN 0 ELSE Len(documents) - skip)
               ELSE limit) |-> documents[skip + i]]

\* routes.py 46-55: skip is computed, the matching documents are counted.
\* PaginationParams admits page >= 1 and 1 <= size <= 100.
paginate_collection(p, op, request, collection, query, page, size) ==
    /\ page >= 1 /\ size >= 1 /\ size <= 100
    /\ Await(p, "paginate_collection_count_documents",
             [op |-> op, request |-> request, collection |-> collection,
              query |-> query, page |-> page, size |-> size,
              skip |-> skip_of(page, size)])

paginate_collection_count_documents(p) ==
    /\ pc[p] = "paginate_collection_count_documents"
    /\ LET total == count_documents(collection_named(loc[p].collection),
                                    loc[p].query)
       IN  Await(p, "paginate_collection_find",
                 [op |-> loc[p].op, request |-> loc[p].request,
                  collection |-> loc[p].collection, query |-> loc[p].query,
                  page |-> loc[p].page, size |-> loc[p].size,
                  skip |-> loc[p].skip, total |-> total])
    /\ UNCHANGED store
    /\ UNCHANGED_process_config

\* routes.py 58-77, and the handler's conversion of the items (routes.py
\* 142-153, 227-233).
paginate_collection_find(p) ==
    /\ pc[p] = "paginate_collection_find"
    /\ LET page == loc[p].page
           size == loc[p].size
           total == loc[p].total
           items == skip_limit(find(collection_named(loc[p].collection),
                                    loc[p].query),
                               loc[p].skip, size)
           pages == pages_of(total, size)
           has_next == page < pages
           has_prev == page > 1
       IN  Return(p, loc[p].op, loc[p].request,
                  [items |-> [i \in 1..Len(items) |->
                                 IF loc[p].op = "list_courses"
                                 THEN CourseOut(items[i])
                                 ELSE LessonOut(items[i])],
                   total |-> total, page |-> page, size |-> size,
                   pages |-> pages, has_next |-> has_next,
                   has_prev |-> has_prev])
    /\ UNCHANGED store
    /\ UNCHANGED_process_config

\* ------------------------------------------------------------ GET /courses
list_courses(p, page, size) ==
    /\ Free(p)
    /\ paginate_collection(p, "list_courses", [page |-> page, size |-> size],
                           "courses", <<>>, page, size)
    /\ UNCHANGED store
    /\ UNCHANGED_process_config

\* ------------------------------------- GET /courses/{course_id}/lessons
\* routes.py 219-238: ObjectId(course_id) is inside the try.
list_lessons(p, course_id, page, size) ==
    /\ Free(p)
    /\ LET request == [course_id |-> course_id, page |-> page, size |-> size]
       IN  IF ~is_valid(course_id)
           THEN /\ page >= 1 /\ size >= 1 /\ size <= 100
                /\ except_Exception(p, "list_lessons", request, bson_InvalidId,
                                    course_id, "Invalid course ID format")
           ELSE paginate_collection(p, "list_lessons", request, "lessons",
                                    [course_id |-> ObjectId(course_id)],
                                    page, size)
    /\ UNCHANGED store
    /\ UNCHANGED_process_config

\* ------------------------------------- GET /courses/{course_id}/progress
\* collection.count_documents({**filter, field: {"$in": ids}})
count_documents_in(collection, filter, field, ids) ==
    Len(SelectSeq(collection,
                  LAMBDA document :
                      /\ matches(document, filter)
                      /\ \E i \in 1..Len(ids) : document[field] = ids[i]))

\* The _id of each document, in the documents' order.
ids_of(documents) == [i \in 1..Len(documents) |-> documents[i]._id]

\* routes.py 457-459: a float, kept exact as numerator / denominator.
percent_completed(lessons_completed, total_lessons) ==
    IF total_lessons > 0
    THEN [numerator |-> lessons_completed * 100, denominator |-> total_lessons]
    ELSE [numerator |-> 0, denominator |-> 1]

get_course_progress(p, credentials, course_id) ==
    /\ Free(p)
    /\ Depends(p, "get_course_progress",
               [course_id |-> course_id, credentials |-> credentials],
               credentials, get_current_user(credentials), course_id,
               "get_course_progress_count_lessons")
    /\ UNCHANGED store
    /\ UNCHANGED_process_config

\* routes.py 432
get_course_progress_count_lessons(p) ==
    /\ pc[p] = "get_course_progress_count_lessons"
    /\ LET course_id == ObjectId(loc[p].request.course_id)
           total_lessons == count_documents(lessons, [course_id |-> course_id])
       IN  Await(p, "get_course_progress_find_lessons",
                 [op |-> "get_course_progress", request |-> loc[p].request,
                  current_user |-> loc[p].current_user,
                  total_lessons |-> total_lessons])
    /\ UNCHANGED store
    /\ UNCHANGED_process_config

\* routes.py 435-437
get_course_progress_find_lessons(p) ==
    /\ pc[p] = "get_course_progress_find_lessons"
    /\ LET course_id == ObjectId(loc[p].request.course_id)
           lesson_ids == ids_of(find(lessons, [course_id |-> course_id]))
       IN  Await(p, "get_course_progress_count_completions",
                 [op |-> "get_course_progress", request |-> loc[p].request,
                  current_user |-> loc[p].current_user,
                  total_lessons |-> loc[p].total_lessons,
                  lesson_ids |-> lesson_ids])
    /\ UNCHANGED store
    /\ UNCHANGED_process_config

\* routes.py 439-442
get_course_progress_count_completions(p) ==
    /\ pc[p] = "get_course_progress_count_completions"
    /\ LET user_id == ObjectId(loc[p].current_user.id)
           lessons_completed ==
               count_documents_in(lesson_completions, [user_id |-> user_id],
                                  "lesson_id", loc[p].lesson_ids)
       IN  Await(p, "get_course_progress_count_quizzes",
                 [op |-> "get_course_progress", request |-> loc[p].request,
                  current_user |-> loc[p].current_user,
                  total_lessons |-> loc[p].total_lessons,
                  lessons_completed |-> lessons_completed])
    /\ UNCHANGED store
    /\ UNCHANGED_process_config

\* routes.py 445
get_course_progress_count_quizzes(p) ==
    /\ pc[p] = "get_course_progress_count_quizzes"
    /\ LET course_id == ObjectId(loc[p].request.course_id)
           total_quizzes == count_documents(quizzes, [course_id |-> course_id])
       IN  Await(p, "get_course_progress_find_quizzes",
                 [op |-> "get_course_progress", request |-> loc[p].request,
                  current_user |-> loc[p].current_user,
                  total_lessons |-> loc[p].total_lessons,
                  lessons_completed |-> loc[p].lessons_completed,
                  total_quizzes |-> total_quizzes])
    /\ UNCHANGED store
    /\ UNCHANGED_process_config

\* routes.py 448-450
get_course_progress_find_quizzes(p) ==
    /\ pc[p] = "get_course_progress_find_quizzes"
    /\ LET course_id == ObjectId(loc[p].request.course_id)
           quiz_ids == ids_of(find(quizzes, [course_id |-> course_id]))
       IN  Await(p, "get_course_progress_count_attempts",
                 [op |-> "get_course_progress", request |-> loc[p].request,
                  current_user |-> loc[p].current_user,
                  total_lessons |-> loc[p].total_lessons,
                  lessons_completed |-> loc[p].lessons_completed,
                  total_quizzes |-> loc[p].total_quizzes,
                  quiz_ids |-> quiz_ids])
    /\ UNCHANGED store
    /\ UNCHANGED_process_config

\* routes.py 452-467
get_course_progress_count_attempts(p) ==
    /\ pc[p] = "get_course_progress_count_attempts"
    /\ LET user_id == ObjectId(loc[p].current_user.id)
           quizzes_attempted ==
               count_documents_in(quiz_attempts, [user_id |-> user_id],
                                  "quiz_id", loc[p].quiz_ids)
       IN  Return(p, "get_course_progress", loc[p].request,
                  [lessons_completed |-> loc[p].lessons_completed,
                   total_lessons |-> loc[p].total_lessons,
                   quizzes_attempted |-> quizzes_attempted,
                   total_quizzes |-> loc[p].total_quizzes,
                   percent_completed |->
                       percent_completed(loc[p].lessons_completed,
                                         loc[p].total_lessons)])
    /\ UNCHANGED store
    /\ UNCHANGED_process_config

\* ------------------------------------------------------------- environment
\* A minute passes.
Tick ==
    /\ now < MaxTime
    /\ now' = now + 1
    /\ UNCHANGED <<store, SECRET_KEY, ACCESS_TOKEN_EXPIRE_MINUTES, restarts,
                   pc, loc, response>>

\* The process is restarted: auth.py 22-26 run again (a new SECRET_KEY, the
\* environment read again); requests in flight are lost; the store stays.
Restart ==
    /\ restarts < MaxRestarts
    /\ restarts' = restarts + 1
    /\ SECRET_KEY' = SECRET_KEY + 1
    /\ ACCESS_TOKEN_EXPIRE_MINUTES' \in ExpireMinutesChoices
    /\ pc' = [p \in Procs |-> "idle"]
    /\ loc' = [p \in Procs |-> NoLocals]
    /\ UNCHANGED <<store, now, response>>

\* ------------------------------------------------------------------ inputs
\* Bearer tokens a client may present: any subject claim (a stored name, a
\* name that is not stored, none), an expiry at either end of the clock's
\* range, signed by any key the process ever had or by a foreign one (0).
Subjects == {"alice", "bob", "carol", "dave"}
Credentials ==
    [sub : {<<>>} \cup {<<u>> : u \in Subjects},
     exp : {0, MaxTime},
     key : 0..SECRET_KEY]

\* The tokens clients present to the authoring routes: one that is good
\* until the clock stops for each of alice, bob and carol, and alice's token
\* expired early, signed with a foreign key, without sub, and naming dave.
ClientCredentials ==
    {[sub |-> <<u>>, exp |-> MaxTime, key |-> SECRET_KEY] :
        u \in {"alice", "bob", "carol", "dave"}}
    \cup {[sub |-> <<"alice">>, exp |-> 0, key |-> SECRET_KEY],
          [sub |-> <<"alice">>, exp |-> MaxTime, key |-> 0],
          [sub |-> <<>>, exp |-> MaxTime, key |-> SECRET_KEY]}

\* Tokens as login issues them to learners, and one that does not verify.
LearnerCredentials ==
    {[sub |-> <<u>>, exp |-> now + ACCESS_TOKEN_EXPIRE_MINUTES, key |-> k] :
        u \in {"bob", "carol"}, k \in {SECRET_KEY}}
    \cup {[sub |-> <<"carol">>, exp |-> now, key |-> SECRET_KEY - 1]}

\* Path parameters: the text of an identifier in use or not, or no identifier.
IdInputs == {str(1), str(2), Malformed}

AnswerInputs == {<<1>>, <<1, 0>>, <<1, 1>>, <<0, 1>>}

\* ------------------------------------------------------- initial states
EmptyStore ==
    /\ users = <<>>
    /\ courses = <<>>
    /\ enrollments = <<>>
    /\ lessons = <<>>
    /\ quizzes = <<>>
    /\ questions = <<>>
    /\ lesson_completions = <<>>
    /\ quiz_attempts = <<>>

\* The process starts (auth.py 22-26): a fresh key, the environment read.
ProcessStart ==
    /\ SECRET_KEY = 1
    /\ now = 0
    /\ restarts = 0
    /\ pc = [p \in Procs |-> "idle"]
    /\ loc = [p \in Procs |-> NoLocals]
    /\ response = NoResponse

\* A store that earlier runs of the program left: alice signed up first
\* (and so is an admin), bob signed up with the admin flag, carol without.
RegisteredUsers ==
    <<[_id |-> 1, username |-> "alice",
       hashed_password |-> get_password_hash("pw1", "s1"), is_admin |-> TRUE],
      [_id |-> 2, username |-> "bob",
       hashed_password |-> get_password_hash("pw2", "s1"), is_admin |-> TRUE],
      [_id |-> 3, username |-> "carol",
       hashed_password |-> get_password_hash("pw1", "s1"), is_admin |-> FALSE]>>

\* A course stored before ownership tracking (routes.py 33): no created_by.
LegacyCourse == [_id |-> 1, created_by |-> None]

AliceCourse == [_id |-> 1, created_by |-> 1]

Init ==
    /\ EmptyStore
    /\ ProcessStart
    /\ ACCESS_TOKEN_EXPIRE_MINUTES \in ExpireMinutesChoices

Next ==
    \/ \E p \in Procs, username \in Usernames, password \in Passwords,
          admin \in AdminInputs, salt \in Salts :
            signup(p, username, password, admin, salt)
    \/ \E p \in Procs : signup_count_documents(p)
    \/ \E p \in Procs : signup_insert_one(p)
    \/ \E p \in Procs, username \in Usernames, password \in Passwords :
            login(p, username, password)
    \/ Tick
    \/ Restart

\* Sign-up and login on a store that starts empty.
Spec == Init /\ [][Next]_vars

\* Course authoring by registered users.
CourseInit ==
    /\ users = RegisteredUsers
    /\ courses \in {<<>>, <<LegacyCourse>>}
    /\ enrollments = <<>>
    /\ lessons = <<>>
    /\ quizzes = <<>>
    /\ questions = <<>>
    /\ lesson_completions = <<>>
    /\ quiz_attempts = <<>>
    /\ ProcessStart
    /\ ACCESS_TOKEN_EXPIRE_MINUTES = 30

CourseNext ==
    \/ \E p \in Procs, credentials \in ClientCredentials : create_course(p, credentials)
    \/ \E p \in Procs : create_course_insert_one(p)
    \/ \E p \in Procs, credentials \in ClientCredentials, course_id \in IdInputs :
            create_lesson(p, credentials, course_id)
    \/ \E p \in Procs : create_lesson_find_course(p)
    \/ \E p \in Procs : create_lesson_insert_one(p)
    \/ \E p \in Procs, credentials \in ClientCredentials, course_id \in IdInputs :
            create_quiz(p, credentials, course_id)
    \/ \E p \in Procs : create_quiz_find_course(p)
    \/ \E p \in Procs : create_quiz_insert_one(p)
    \/ Tick

CourseSpec == CourseInit /\ [][CourseNext]_vars

\* Enrollment and lesson completion in a course that has one lesson.
EnrollInit ==
    /\ users = RegisteredUsers
    /\ courses = <<AliceCourse>>
    /\ enrollments = <<>>
    /\ lessons = <<[_id |-> 1, course_id |-> 1]>>
    /\ quizzes = <<>>
    /\ questions = <<>>
    /\ lesson_completions = <<>>
    /\ quiz_attempts = <<>>
    /\ ProcessStart
    /\ ACCESS_TOKEN_EXPIRE_MINUTES = 30

EnrollArrival ==
    \/ \E p \in Procs, credentials \in LearnerCredentials, course_id \in IdInputs :
            enroll_course(p, credentials, course_id)
    \/ \E p \in Procs, credentials \in LearnerCredentials, lesson_id \in IdInputs :
            complete_lesson(p, credentials, lesson_id)

EnrollStep ==
    \/ \E p \in Procs : enroll_course_find_course(p)
    \/ \E p \in Procs : enroll_course_find_enrollment(p)
    \/ \E p \in Procs : enroll_course_insert_one(p)
    \/ \E p \in Procs : complete_lesson_find_lesson(p)
    \/ \E p \in Procs : complete_lesson_find_completion(p)
    \/ \E p \in Procs : complete_lesson_insert_one(p)

EnrollNext == EnrollArrival \/ EnrollStep

EnrollSpec == EnrollInit /\ [][EnrollNext]_vars

\* The same requests, each one arriving after the one before was answered.
NoneInFlight == \A p \in Procs : pc[p] = "idle"

EnrollSeqNext == (NoneInFlight /\ EnrollArrival) \/ EnrollStep

EnrollSeqSpec == EnrollInit /\ [][EnrollSeqNext]_vars

\* Quiz attempts on a quiz whose questions are still being written.
QuizInit ==
    /\ users = RegisteredUsers
    /\ courses = <<AliceCourse>>
    /\ enrollments = <<>>
    /\ lessons = <<>>
    /\ quizzes = <<[_id |-> 1, course_id |-> 1]>>
    /\ questions = <<[_id |-> 1, quiz_id |-> 1, correct_answer |-> 1]>>
    /\ lesson_completions = <<>>
    /\ quiz_attempts = <<>>
    /\ ProcessStart
    /\ ACCESS_TOKEN_EXPIRE_MINUTES = 30

QuizNext ==
    \/ \E p \in Procs, credentials \in LearnerCredentials, quiz_id \in IdInputs,
          answers \in AnswerInputs :
            attempt_quiz(p, credentials, quiz_id, answers)
    \/ \E p \in Procs : attempt_quiz_find_quiz(p)
    \/ \E p \in Procs : attempt_quiz_find_questions(p)
    \/ \E p \in Procs : attempt_quiz_insert_one(p)
    \/ \E p \in Procs, quiz_id \in IdInputs, correct_answer \in {0, 1} :
            create_question(p, [sub |-> <<"alice">>, exp |-> now, key |-> SECRET_KEY],
                            quiz_id, correct_answer)
    \/ \E p \in Procs : create_question_find_quiz(p)
    \/ \E p \in Procs : create_question_find_course(p)
    \/ \E p \in Procs : create_question_insert_one(p)

QuizSpec == QuizInit /\ [][QuizNext]_vars

\* Progress summaries of carol while alice adds a lesson to her course and
\* carol completes lessons and attempts the course's quiz.
AliceToken == [sub |-> <<"alice">>, exp |-> now, key |-> SECRET_KEY]
CarolToken == [sub |-> <<"carol">>, exp |-> now, key |-> SECRET_KEY]

ProgressInit ==
    /\ users = RegisteredUsers
    /\ courses = <<AliceCourse>>
    /\ enrollments = <<>>
    /\ lessons = <<>>
    /\ quizzes = <<[_id |-> 1, course_id |-> 1]>>
    /\ questions = <<[_id |-> 1, quiz_id |-> 1, correct_answer |-> 1]>>
    /\ lesson_completions = <<>>
    /\ quiz_attempts = <<>>
    /\ ProcessStart
    /\ ACCESS_TOKEN_EXPIRE_MINUTES = 30

ProgressNext ==
    \/ \E p \in Procs, course_id \in IdInputs :
            get_course_progress(p, CarolToken, course_id)
    \/ \E p \in Procs : get_course_progress_count_lessons(p)
    \/ \E p \in Procs : get_course_progress_find_lessons(p)
    \/ \E p \in Procs : get_course_progress_count_completions(p)
    \/ \E p \in Procs : get_course_progress_count_quizzes(p)
    \/ \E p \in Procs : get_course_progress_find_quizzes(p)
    \/ \E p \in Procs : get_course_progress_count_attempts(p)
    \/ \E p \in Procs : create_lesson(p, AliceToken, str(1))
    \/ \E p \in Procs : create_lesson_find_course(p)
    \/ \E p \in Procs : create_lesson_insert_one(p)
    \/ \E p \in Procs : complete_lesson(p, CarolToken, str(1))
    \/ \E p \in Procs : complete_lesson_find_lesson(p)
    \/ \E p \in Procs : complete_lesson_find_completion(p)
    \/ \E p \in Procs : complete_lesson_insert_one(p)
    \/ \E p \in Procs : attempt_quiz(p, CarolToken, str(1), <<1>>)
    \/ \E p \in Procs : attempt_quiz_find_quiz(p)
    \/ \E p \in Procs : attempt_quiz_find_questions(p)
    \/ \E p \in Procs : attempt_quiz_insert_one(p)

ProgressSpec == ProgressInit /\ [][ProgressNext]_vars

\* Reading and listing a store that holds up to MaxDocuments courses (of
\* alice and bob in turn, the first one possibly a legacy course) and as many
\* lessons (of courses 1 and 2 in turn).
PageSizes == {1, 2, 3, 100}

StoredCourses(n, first) ==
    [i \in 1..n |-> IF i = 1 THEN first
                    ELSE [_id |-> i, created_by |-> 1 + (i % 2)]]

StoredLessons(n) == [i \in 1..n |-> [_id |-> i, course_id |-> 1 + (i % 2)]]

ReadInit ==
    /\ users = RegisteredUsers
    /\ \E n \in 0..MaxDocuments, first \in {LegacyCourse, AliceCourse} :
            courses = StoredCourses(n, first)
    /\ \E n \in 0..MaxDocuments : lessons = StoredLessons(n)
    /\ enrollments = <<>>
    /\ quizzes = <<>>
    /\ questions = <<>>
    /\ lesson_completions = <<>>
    /\ quiz_attempts = <<>>
    /\ ProcessStart
    /\ ACCESS_TOKEN_EXPIRE_MINUTES = 30

ReadIdInputs == {str(1), str(2), str(MaxDocuments + 1), Malformed}

\* No request of ReadSpec writes the store, so the requests are served one
\* after another: interleaving them changes no answer.
ReadNext ==
    \/ \E p \in Procs, course_id \in ReadIdInputs :
            NoneInFlight /\ get_course(p, course_id)
    \/ \E p \in Procs, lesson_id \in ReadIdInputs :
            NoneInFlight /\ get_lesson(p, lesson_id)
    \/ \E p \in Procs, page \in 1..MaxPage, size \in PageSizes :
            NoneInFlight /\ list_courses(p, page, size)
    \/ \E p \in Procs, course_id \in ReadIdInputs, page \in 1..MaxPage,
          size \in PageSizes :
            NoneInFlight /\ list_lessons(p, course_id, page, size)
    \/ \E p \in Procs : paginate_collection_count_documents(p)
    \/ \E p \in Procs : paginate_collection_find(p)

ReadSpec == ReadInit /\ [][ReadNext]_vars

\* =================================================================== claims
\* The stored user record behind a User object.
StoredUser(current_user) ==
    \E i \in 1..Len(users) :
        /\ str(users[i]._id) = current_user.id
        /\ users[i].username = current_user.username
        /\ users[i].is_admin = current_user.is_admin

CourseExists(course_id) ==
    \E i \in 1..Len(courses) : str(courses[i]._id) = course_id

\* Course course_id exists and its created_by is the identifier of current_user.
CreatedBy(course_id, current_user) ==
    \E i \in 1..Len(courses) :
        /\ str(courses[i]._id) = course_id
        /\ courses[i].created_by # None
        /\ str(courses[i].created_by) = current_user.id

\* The step worker p takes from the creator check of create_lesson or create_quiz.
C1_Check(p, insert_label) ==
    /\ loc[p].current_user.is_admin
    /\ StoredUser(loc[p].current_user)
    /\ UNCHANGED <<lessons, quizzes>>
    /\ IF CreatedBy(loc[p].request.course_id, loc[p].current_user)
       THEN pc'[p] = insert_label
       ELSE /\ pc'[p] = "idle"
            /\ response'.status_code =
                  IF CourseExists(loc[p].request.course_id) THEN 403 ELSE 404

C1_Inserted(p, collection, collection_after) ==
    /\ CreatedBy(loc[p].request.course_id, loc[p].current_user)
    /\ collection_after =
           Append(collection, [_id |-> Len(collection) + 1,
                               course_id |-> loc[p].request.course_id[2]])
    /\ response'.status_code = 200

C1_Step ==
    /\ \A p \in Procs :
        /\ (pc[p] = "create_lesson_find_course" /\ pc'[p] # pc[p])
              => C1_Check(p, "create_lesson_insert_one")
        /\ (pc[p] = "create_quiz_find_course" /\ pc'[p] # pc[p])
              => C1_Check(p, "create_quiz_insert_one")
        /\ (pc[p] = "create_lesson_insert_one" /\ pc'[p] # pc[p])
              => C1_Inserted(p, lessons, lessons') /\ quizzes' = quizzes
        /\ (pc[p] = "create_quiz_insert_one" /\ pc'[p] # pc[p])
              => C1_Inserted(p, quizzes, quizzes') /\ lessons' = lessons
    /\ lessons' # lessons
          => \E p \in Procs : pc[p] = "create_lesson_insert_one" /\ pc'[p] = "idle"
    /\ quizzes' # quizzes
          => \E p \in Procs : pc[p] = "create_quiz_insert_one" /\ pc'[p] = "idle"

\* C1: create_lesson and create_quiz, called by an admin a for course c,
\* insert a record exactly when course c exists and its created_by is a's
\* id; otherwise nothing is inserted and the answer is 404 when no course c
\* exists and 403 when c has no created_by or another user's id in it.
C1_CreatorOnlyInserts == [][C1_Step]_vars

\* The creator has added a lesson, and another admin's create_quiz for a
\* course was refused as not the creator's.
C1_Witness ==
    /\ lessons # <<>>
    /\ response.op = "create_quiz"
    /\ response.status_code = 403
    /\ response.detail = "Only the course creator can modify this course"

\* The token verifies, has not expired and names a stored user.
ValidToken(token) ==
    /\ token.key = SECRET_KEY
    /\ token.exp >= now
    /\ token.sub # <<>>
    /\ \E i \in 1..Len(users) : users[i].username = token.sub[1]

C2_Step ==
    /\ \A p \in Procs :
        /\ \A credentials \in ClientCredentials :
              create_course(p, credentials)
                  => LET caller == get_current_user(credentials)
                     IN  /\ courses' = courses
                         /\ (ValidToken(credentials) /\ ~caller.user.is_admin)
                                => /\ response'.status_code = 403
                                   /\ pc'[p] = "idle"
                         /\ pc'[p] = "create_course_insert_one"
                                => /\ ValidToken(credentials)
                                   /\ loc'[p].current_user = caller.user
        /\ (pc[p] = "idle" /\ pc'[p] = "create_course_insert_one")
              => /\ loc'[p].current_user.is_admin
                 /\ StoredUser(loc'[p].current_user)
        /\ (pc[p] = "create_course_insert_one" /\ pc'[p] # pc[p])
              => /\ courses' = Append(courses,
                                      [_id |-> Len(courses) + 1,
                                       created_by |-> loc[p].current_user.id[2]])
                 /\ response'.status_code = 200
                 /\ response'.body[1].created_by = loc[p].current_user.id
    /\ courses' # courses
          => \E p \in Procs : pc[p] = "create_course_insert_one" /\ pc'[p] = "idle"

\* C2: create_course succeeds only for a caller whose stored record has
\* is_admin true: an authenticated caller who is no admin gets 403 and the
\* courses stay as they are; for an admin exactly one course is inserted,
\* with created_by the caller's id.
C2_AdminOnlyCreateCourse == [][C2_Step]_vars

\* carol (no admin) was refused with 403 after bob (an admin) created a course.
C2_Witness ==
    /\ response.op = "create_course"
    /\ response.status_code = 403
    /\ response.request.credentials.sub = <<"carol">>
    /\ \E i \in 1..Len(courses) : courses[i].created_by = 2

C3_Function ==
    \A token \in Credentials :
        LET outcome == get_current_user(token)
        IN  IF ValidToken(token)
            THEN /\ outcome.ok
                 /\ outcome.user.username = token.sub[1]
                 /\ StoredUser(outcome.user)
            ELSE outcome = [ok |-> FALSE, status_code |-> 401,
                            detail |-> "Could not validate credentials"]

\* The step is the arrival of a request of worker p that carries `credentials`.
C3_Arrival(p, credentials) ==
    /\ pc[p] = "idle"
    /\ LET op == IF pc'[p] = "idle" THEN response'.op ELSE loc'[p].op
           request == IF pc'[p] = "idle" THEN response'.request ELSE loc'[p].request
           \* a refusal by the dependency is the same for every course_id
           course_id == IF "course_id" \in DOMAIN request
                        THEN request.course_id ELSE str(1)
       IN  CASE op = "create_course" -> create_course(p, credentials)
             [] op = "create_lesson" -> create_lesson(p, credentials, course_id)
             [] op = "create_quiz" -> create_quiz(p, credentials, course_id)
             [] OTHER -> FALSE

C3_Step ==
    \A p \in Procs, credentials \in ClientCredentials :
          C3_Arrival(p, credentials)
              => IF ValidToken(credentials)
                 THEN \/ response'.status_code \in {403, 500}
                      \/ /\ pc'[p] # "idle"
                         /\ loc'[p].current_user.username = credentials.sub[1]
                         /\ StoredUser(loc'[p].current_user)
                 ELSE /\ pc'[p] = "idle"
                      /\ response'.status_code = 401
                      /\ response'.detail = "Could not validate credentials"

\* C3: get_current_user gives one and the same 401 ("Could not validate
\* credentials") for an expired token, a token that does not verify, a token
\* without sub and a token whose sub is no stored username; it gives the
\* user exactly when the token verifies, has not expired and names a stored
\* user.
C3_OneUnauthenticatedOutcome == []C3_Function /\ [][C3_Step]_vars

\* A request was refused with 401 for no other cause than the expiry of its
\* token (the token verifies and names alice, who is stored).
C3_Witness ==
    /\ response.status_code = 401
    /\ response.detail = "Could not validate credentials"
    /\ response.request.credentials.key = SECRET_KEY
    /\ response.request.credentials.sub = <<"alice">>
    /\ response.request.credentials.exp < now

\* C4: the first signup on an empty user store stores and returns a user
\* with is_admin true, whatever admin flag the request carried.
C4_FirstSignupIsAdmin ==
    /\ users # <<>> => users[1].is_admin
    /\ (response.op = "signup" /\ response.status_code = 200
            /\ response.body[1].id = str(1))
          => /\ response.body[1].is_admin
             /\ users[1].username = response.request.username
             /\ users[1].is_admin

\* The first user was stored by a signup that did not ask to be an admin.
C4_Witness ==
    /\ response.op = "signup"
    /\ response.status_code = 200
    /\ response.body[1].id = str(1)
    /\ response.request.admin \in {"false", "omitted"}
    /\ response.body[1].is_admin

\* A signup with this username and password has succeeded (only signup
\* inserts users, and no user is ever changed or removed).
SignedUp(username, password) ==
    \E i \in 1..Len(users) :
        /\ users[i].username = username
        /\ verify_password(password, users[i].hashed_password)

\* C5: after a successful signup, login with the same username and password
\* returns a token that, validated before its expiry in the same process,
\* resolves to the user with that username.
C5_SignupLoginRoundTrip ==
    (response.op = "login"
        /\ SignedUp(response.request.username, response.request.password))
      => /\ response.status_code = 200
         /\ LET token == response.body[1].access_token
            IN  (token.key = SECRET_KEY /\ token.exp >= now)
                  => /\ get_current_user(token).ok
                     /\ get_current_user(token).user.username
                            = response.request.username

\* C6: the enrollments collection holds at most one record for any
\* (user, course) pair.
C6_OneEnrollmentPerPair ==
    \A i, j \in 1..Len(enrollments) :
        (enrollments[i].user_id = enrollments[j].user_id
            /\ enrollments[i].course_id = enrollments[j].course_id) => i = j

\* C7: the lesson_completions collection holds at most one record for any
\* (user, lesson) pair.
C7_OneCompletionPerPair ==
    \A i, j \in 1..Len(lesson_completions) :
        (lesson_completions[i].user_id = lesson_completions[j].user_id
            /\ lesson_completions[i].lesson_id = lesson_completions[j].lesson_id)
          => i = j

\* C8: no two user records share a username.
C8_UniqueUsernames ==
    \A i, j \in 1..Len(users) : users[i].username = users[j].username => i = j

Enrolled(user_id, course_id) ==
    \E i \in 1..Len(enrollments) :
        str(enrollments[i].user_id) = user_id
            /\ str(enrollments[i].course_id) = course_id

Completed(user_id, lesson_id) ==
    \E i \in 1..Len(lesson_completions) :
        str(lesson_completions[i].user_id) = user_id
            /\ str(lesson_completions[i].lesson_id) = lesson_id

\* Worker p serves a request that repeats one which has succeeded.
C9_Repeats(p) ==
    \/ /\ loc[p].op = "enroll_course"
       /\ Enrolled(loc[p].current_user.id, loc[p].request.course_id)
    \/ /\ loc[p].op = "complete_lesson"
       /\ Completed(loc[p].current_user.id, loc[p].request.lesson_id)

C9_Step ==
    \A p \in Procs :
        (pc[p] # "idle" /\ pc'[p] # pc[p] /\ C9_Repeats(p))
          => /\ UNCHANGED <<enrollments, lesson_completions>>
             /\ pc'[p] = "idle"
                   => /\ response'.status_code = 400
                      /\ response'.detail =
                            IF loc[p].op = "enroll_course"
                            THEN "Already enrolled in this course"
                            ELSE "Lesson already marked as completed"
             /\ pc'[p] # "idle"
                   => pc'[p] \in {"enroll_course_find_enrollment",
                                  "complete_lesson_find_completion"}

\* C9: when requests run one after another, an enroll(u, c) after a
\* successful enroll(u, c), and a completeLesson(u, l) after a successful
\* completeLesson(u, l), fails with 400 and leaves the enrollments and the
\* lesson_completions as they are.
C9_RepeatIsConflict == [][C9_Step]_vars

\* carol is enrolled and has completed the lesson, and a repeated enroll was
\* answered with the conflict.
C9_Witness ==
    /\ response.op = "enroll_course"
    /\ response.status_code = 400
    /\ response.detail = "Already enrolled in this course"
    /\ Enrolled(str(3), str(1))
    /\ Completed(str(3), str(1))

C10_Step ==
    /\ \A i \in 1..Len(quiz_attempts) :
          /\ i <= Len(quiz_attempts')
          /\ quiz_attempts'[i] = quiz_attempts[i]
    /\ \A i, j \in 1..Len(quiz_attempts') :
          quiz_attempts'[i]._id = quiz_attempts'[j]._id => i = j
    /\ Len(quiz_attempts') <= Len(quiz_attempts) + 1
    /\ \A p \in Procs :
          (pc[p] = "attempt_quiz_insert_one" /\ pc'[p] # pc[p])
             => /\ Len(quiz_attempts') = Len(quiz_attempts) + 1
                /\ response'.status_code = 200
                /\ LET attempt == quiz_attempts'[Len(quiz_attempts')]
                   IN  /\ str(attempt._id) = response'.body[1].id
                       /\ str(attempt.user_id) = loc[p].current_user.id
                       /\ str(attempt.quiz_id) = loc[p].request.quiz_id
                       /\ attempt.answers = loc[p].request.answers
    /\ quiz_attempts' # quiz_attempts
          => \E p \in Procs : pc[p] = "attempt_quiz_insert_one" /\ pc'[p] = "idle"
    /\ (response'.op = "attempt_quiz" /\ response'.status_code # 200
            /\ \E p \in Procs : pc'[p] # pc[p])
          => quiz_attempts' = quiz_attempts

\* C10: quiz attempts are append-only: every successful attemptQuiz adds
\* exactly one attempt record with a new identifier, no step changes or
\* removes an attempt record, and two successful attempts of one user on one
\* quiz, also with the same answers, leave two records.
C10_AttemptsAppendOnly == [][C10_Step]_vars

\* Two attempts of one user on one quiz with the same answers are stored.
C10_Witness ==
    /\ Len(quiz_attempts) = 2
    /\ quiz_attempts[1].user_id = quiz_attempts[2].user_id
    /\ quiz_attempts[1].quiz_id = quiz_attempts[2].quiz_id
    /\ quiz_attempts[1].answers = quiz_attempts[2].answers
    /\ quiz_attempts[1]._id # quiz_attempts[2]._id

\* The questions of the quiz, in insertion order.
QuestionsOf(quiz_id) ==
    SelectSeq(questions, LAMBDA q : str(q.quiz_id) = quiz_id)

\* The number of positions at which the answer is the question's correct one.
C11_Matches(quiz_questions, answers) ==
    Cardinality({i \in 1..Len(quiz_questions) :
                    answers[i] = quiz_questions[i].correct_answer})

C11_Step ==
    \A p \in Procs :
        /\ (pc[p] = "attempt_quiz_find_questions"
                /\ pc'[p] = "attempt_quiz_insert_one")
              => LET quiz_questions == QuestionsOf(loc[p].request.quiz_id)
                     answers == loc[p].request.answers
                 IN  /\ Len(answers) = Len(quiz_questions)
                     /\ loc'[p].score = C11_Matches(quiz_questions, answers)
                     /\ loc'[p].score \in 0..Len(quiz_questions)
        /\ (pc[p] = "attempt_quiz_insert_one" /\ pc'[p] # pc[p])
              => /\ quiz_attempts'[Len(quiz_attempts')].score = loc[p].score
                 /\ quiz_attempts'[Len(quiz_attempts')].answers
                        = loc[p].request.answers
                 /\ response'.body[1].score = loc[p].score

\* C11: for an answer list as long as the quiz's question list, the score
\* attempt_quiz stores is the number of positions i at which answers[i] is
\* the correct_answer of the i-th question in insertion order (a function of
\* the questions and the answers, between 0 and the number of questions).
C11_ScoreCountsMatchingPositions == [][C11_Step]_vars

\* An attempt on two questions was stored with one of two answers right.
C11_Witness ==
    \E i \in 1..Len(quiz_attempts) :
        /\ Len(quiz_attempts[i].answers) = 2
        /\ quiz_attempts[i].score = 1

QuizExists(quiz_id) ==
    \E i \in 1..Len(quizzes) : str(quizzes[i]._id) = quiz_id

C12_Step ==
    \A p \in Procs :
        /\ (pc[p] = "attempt_quiz_find_quiz" /\ pc'[p] # pc[p])
              => IF QuizExists(loc[p].request.quiz_id)
                 THEN pc'[p] = "attempt_quiz_find_questions"
                 ELSE /\ pc'[p] = "idle"
                      /\ response'.op = "attempt_quiz"
                      /\ response'.status_code = 404
                      /\ quiz_attempts' = quiz_attempts
        /\ (pc[p] = "attempt_quiz_find_questions" /\ pc'[p] # pc[p])
              => IF Len(loc[p].request.answers)
                        = Len(QuestionsOf(loc[p].request.quiz_id))
                 THEN pc'[p] = "attempt_quiz_insert_one"
                 ELSE /\ pc'[p] = "idle"
                      /\ response'.op = "attempt_quiz"
                      /\ response'.status_code = 400
                      /\ quiz_attempts' = quiz_attempts

\* C12: attempt_quiz on an existing quiz with an answer list whose length
\* is not the number of the quiz's questions fails with 400, and on a quiz
\* id without a record with 404; neither stores an attempt.
C12_BadAttemptIsRefused == [][C12_Step]_vars

\* An attempt with the wrong number of answers was refused after another
\* attempt had been stored.
C12_Witness ==
    /\ response.op = "attempt_quiz"
    /\ response.status_code = 400
    /\ response.detail = "Number of answers does not match number of questions"
    /\ quiz_attempts # <<>>

\* The identifier of the stored user a token names.
UserIdOf(credentials) ==
    CHOOSE id \in {users[i]._id : i \in 1..Len(users)} :
        \E i \in 1..Len(users) :
            users[i]._id = id /\ users[i].username = credentials.sub[1]

\* The quizzes of the course on which the user has an attempt record.
QuizzesAttempted(user_id, course_id) ==
    {quizzes[i]._id : i \in {j \in 1..Len(quizzes) :
        /\ str(quizzes[j].course_id) = course_id
        /\ \E k \in 1..Len(quiz_attempts) :
              /\ quiz_attempts[k].user_id = user_id
              /\ quiz_attempts[k].quiz_id = quizzes[j]._id}}

\* C13: in the summary get_course_progress returns, quizzes_attempted is the
\* number of distinct quizzes of the course on which the user has at least
\* one attempt record, and so never exceeds total_quizzes.
C13_QuizzesAttemptedCountsQuizzes ==
    (response.op = "get_course_progress" /\ response.status_code = 200)
      => LET summary == response.body[1]
             user_id == UserIdOf(response.request.credentials)
         IN  /\ summary.quizzes_attempted
                  = Cardinality(QuizzesAttempted(user_id,
                                                 response.request.course_id))
             /\ summary.quizzes_attempted <= summary.total_quizzes

\* C20: every summary get_course_progress returns has lessons_completed <=
\* total_lessons and 0 <= percent_completed <= 100, with percent_completed 0
\* when total_lessons is 0.
C20_ProgressWithinBounds ==
    (response.op = "get_course_progress" /\ response.status_code = 200)
      => LET summary == response.body[1]
             percent == summary.percent_completed
         IN  /\ summary.lessons_completed <= summary.total_lessons
             /\ percent.numerator >= 0
             /\ percent.numerator <= 100 * percent.denominator
             /\ summary.total_lessons = 0 => percent.numerator = 0

\* C14: get_course with a well-formed id that matches no stored course
\* answers 404.
C14_UnknownCourseIsNotFound ==
    (response.op = "get_course"
        /\ is_valid(response.request.course_id)
        /\ ~CourseExists(response.request.course_id))
      => response.status_code = 404

\* The request carries a path identifier that is not the text of an ObjectId.
MalformedIdIn(request) ==
    \E field \in DOMAIN request \cap {"course_id", "lesson_id", "quiz_id"} :
        request[field][1] # "hex"

C15_Step ==
    (response' # response /\ MalformedIdIn(response'.request))
      => /\ response'.status_code = 400
         /\ UNCHANGED store

\* C15: an operation given a malformed resource identifier answers 400,
\* never 500, and changes no collection.
C15_MalformedIdIsValidationError == [][C15_Step]_vars

\* The response is a page of a listing.
IsPage == response.op \in {"list_courses", "list_lessons"}
              /\ response.status_code = 200

\* The stored documents the listing request asks for, in insertion order.
Listed(request) ==
    IF "course_id" \in DOMAIN request
    THEN SelectSeq(lessons, LAMBDA l : str(l.course_id) = request.course_id)
    ELSE courses

\* C16 as stated: a page of a listing that matches no record has pages = 0
\* and has_next and has_prev both false, whatever the page number.
C16_EmptyListingHasNoNeighbours ==
    (IsPage /\ Listed(response.request) = <<>>)
      => /\ response.body[1].pages = 0
         /\ ~response.body[1].has_next
         /\ ~response.body[1].has_prev

\* C16, amended: a page of a listing that matches no record has total = 0,
\* no items, pages = 0 and has_next false, whatever the page number; has_prev
\* is false for page 1 and true for every later page.
C16_EmptyListingPages ==
    (IsPage /\ Listed(response.request) = <<>>)
      => /\ response.body[1].total = 0
         /\ response.body[1].items = <<>>
         /\ response.body[1].pages = 0
         /\ ~response.body[1].has_next
         /\ response.body[1].has_prev <=> response.request.page > 1

\* Page 1 of a listing that matches no record, and no previous page.
C16_Witness ==
    /\ IsPage
    /\ Listed(response.request) = <<>>
    /\ response.request.page = 1
    /\ response.body[1].pages = 0
    /\ ~response.body[1].has_prev

\* The least number of pages of `size` records that hold `total` records.
Ceiling(total, size) ==
    CHOOSE n \in 0..total : n * size >= total /\ (n = 0 \/ (n - 1) * size < total)

\* Pages p .. pages of the documents, one after another.
RECURSIVE C17_Concatenated(_, _, _, _)
C17_Concatenated(documents, size, p, pages) ==
    IF p > pages THEN <<>>
    ELSE skip_limit(documents, skip_of(p, size), size)
            \o C17_Concatenated(documents, size, p + 1, pages)

C17_PagesCoverEveryRecordOnce(documents) ==
    \A size \in PageSizes :
        C17_Concatenated(documents, size, 1, pages_of(Len(documents), size))
            = documents

\* C17: over a collection that does not change, page p of size `size`
\* holds the matching records at offsets (p-1)*size .. p*size-1 in insertion
\* order, pages is ceil(total / size), the pages 1 .. pages together hold
\* every matching record exactly once (so the item counts sum to total),
\* has_next is true exactly for p < pages and has_prev exactly for p > 1.
C17_PagesPartitionTheListing ==
    /\ C17_PagesCoverEveryRecordOnce(courses)
    /\ \A course_id \in ReadIdInputs :
          C17_PagesCoverEveryRecordOnce(Listed([course_id |-> course_id]))
    /\ IsPage
          => LET listed == Listed(response.request)
                 total == Len(listed)
                 page == response.request.page
                 size == response.request.size
                 first == (page - 1) * size + 1
                 last == IF page * size < total THEN page * size ELSE total
                 result == response.body[1]
             IN  /\ result.total = total
                 /\ result.pages = Ceiling(total, size)
                 /\ Len(result.items) = (IF last < first THEN 0 ELSE last - first + 1)
                 /\ \A i \in 1..Len(result.items) :
                       result.items[i].id = str(listed[first + i - 1]._id)
                 /\ result.has_next <=> page < result.pages
                 /\ result.has_prev <=> page > 1

\* The second and last page, of one record, of three listed by twos.
C17_Witness ==
    /\ IsPage
    /\ response.request.page = 2
    /\ response.request.size = 2
    /\ response.body[1].total = 3
    /\ Len(response.body[1].items) = 1
    /\ response.body[1].has_prev
    /\ ~response.body[1].has_next

C18_Step ==
    (/\ response' # response
     /\ response'.op = "login"
     /\ response'.status_code = 200)
      => response'.body[1].access_token.exp = now + ACCESS_TOKEN_EXPIRE_MINUTES

\* C18: a token that login issues with the configured time-to-live
\* supplied to create_access_token expires exactly at the issuance time plus
\* that time-to-live, a time-to-live of zero included.
C18_TokenExpiresAfterSuppliedTtl == [][C18_Step]_vars

\* C19: under interleaved signups, a user store that is not empty holds an
\* admin: its first record is one.
C19_UserStoreHasAnAdmin ==
    users # <<>>
      => /\ \E i \in 1..Len(users) : users[i].is_admin
         /\ users[1].is_admin
         /\ \A i \in 1..Len(users) : users[i]._id = 1 => users[i].is_admin

\* Two signups overlapped: the second record stored is an admin too, though
\* its request asked for no admin rights.
C19_Witness ==
    /\ Len(users) = 2
    /\ users[1].is_admin
    /\ response.op = "signup"
    /\ response.status_code = 200
    /\ response.body[1].id = str(2)
    /\ response.request.admin = "false"
    /\ response.body[1].is_admin
====
